---- MODULE Spec2Model ----
(***************************************************************************)
(* Model of gis_converter__merger.py: merge_files, save_output and the two *)
(* request paths of main (Format Converter, Format Merger).                *)
(*                                                                         *)
(* A GeoDataFrame is modelled as [cols, crs, rows]: cols is the ordered    *)
(* column list, crs the CRS tag of the frame, rows the ordered features.   *)
(* A feature records the input it came from, its row number there, the CRS *)
(* its coordinates are expressed in (the code never transforms             *)
(* coordinates, so this never changes) and its attribute record.           *)
(***************************************************************************)
EXTENDS Integers, Sequences, FiniteSets, TLC

VARIABLES page, formats, output_format, idx, gdfs, gdf, merged_gdf,
          pc, error, reads, writer, output

vars == <<page, formats, output_format, idx, gdfs, gdf, merged_gdf,
          pc, error, reads, writer, output>>

\* ------------------------------------------------------------------ bounds
MaxFiles == 2
MaxRows == 2

\* --------------------------------------------------------------- constants
\* st.number_input(..., min_value=2, max_value=10, value=2)
MinFileCount == 2
MaxFileCount == 10

\* st.selectbox options of main
InputFormats == {"Shapefile", "KML/KMZ", "GeoJSON", "CSV"}
OutputFormats == {"Shapefile", "KML", "GeoJSON", "CSV"}

\* A tag no selectbox offers; only a direct caller of merge_files or
\* save_output can pass it.
OtherTag == "GPX"

Unknown == "unknown"
WGS84 == "EPSG:4326"
KnownCRS == {WGS84, "EPSG:3857"}
CRSs == KnownCRS \cup {Unknown}

\* ----------------------------------------------------------------- helpers
Range(s) == {s[i] : i \in DOMAIN s}

Min(a, b) == IF a <= b THEN a ELSE b

\* The value Python gives a missing result (merge_files' "return None").
None == [cols |-> <<>>, crs |-> "None", rows |-> <<>>]

\* The local gdf of main before any branch assigned it.
Unbound == [cols |-> <<>>, crs |-> "unbound", rows |-> <<>>]

\* The NaN pd.concat fills a missing column with.
Null == [i |-> 0, r |-> 0, c |-> "null"]

\* ------------------------------------------------------------ input files
\* Base names of the .shp entries an archive may hold, in lexicographic
\* order.
ShpNames == <<"a", "b">>

\* The tables the inputs hold: "a" and "b" carry a geometry column, "c" is a
\* table without one.
Datasets ==
    [d \in {"a", "b", "c"} |->
        CASE d = "a" -> [cols |-> <<"name", "geometry">>, n |-> MaxRows]
          [] d = "b" -> [cols |-> <<"population", "geometry">>, n |-> 1]
          [] d = "c" -> [cols |-> <<"name", "population">>, n |-> 1]]

\* The frame a successful read of table ds as input i returns.
MakeGdf(i, ds, crs) ==
    [cols |-> Datasets[ds].cols,
     crs  |-> crs,
     rows |-> [r \in 1..Datasets[ds].n |->
                 [src |-> i, row |-> r, crs |-> crs,
                  attrs |-> [c \in Range(Datasets[ds].cols) |->
                               [i |-> i, r |-> r, c |-> c]]]]]

\* What an uploaded file can hold, by the format it is read as.
\*   bad   the reader raises on it (bad zip, malformed document, ...)
\*   enum  Shapefile only: the .shp entries of the archive in the order
\*         Path.glob enumerates them
\*   ds    the table it holds
\*   crs   the CRS it declares (.prj sidecar, GeoJSON crs member)
Contents(format) ==
    IF format = "Shapefile" THEN
        {[bad |-> TRUE, enum |-> <<>>, ds |-> "", crs |-> ""],
         [bad |-> FALSE, enum |-> <<>>, ds |-> "", crs |-> ""]}
        \cup {[bad |-> FALSE, enum |-> e, ds |-> "", crs |-> c] :
                e \in {<<"a">>, <<"b">>, <<"a", "b">>, <<"b", "a">>},
                c \in CRSs}
    ELSE IF format = "KML/KMZ" THEN
        {[bad |-> TRUE, enum |-> <<>>, ds |-> "", crs |-> ""]}
        \cup {[bad |-> FALSE, enum |-> <<>>, ds |-> d, crs |-> ""] :
                d \in {"a", "b"}}
    ELSE IF format = "GeoJSON" THEN
        {[bad |-> TRUE, enum |-> <<>>, ds |-> "", crs |-> ""]}
        \cup {[bad |-> FALSE, enum |-> <<>>, ds |-> d, crs |-> c] :
                d \in {"a", "b"}, c \in KnownCRS}
    ELSE
        {[bad |-> TRUE, enum |-> <<>>, ds |-> "", crs |-> ""]}
        \cup {[bad |-> FALSE, enum |-> <<>>, ds |-> d, crs |-> ""] :
                d \in {"a", "b", "c"}}

\* --------------------------------------------------------------- readers
\* A read returns [kind, adapter, gdf, sel]:
\*   kind     "gdf"     a frame was read
\*            "skip"    nothing was read and nothing was raised
\*            "nogeom"  the CSV branch found no geometry column
\*            "raise"   the reader raised an exception
\*   adapter  the read adapter the dispatch invoked
\*   sel      Shapefile only: the .shp entry that was read
Result(kind, adapter, g, sel) ==
    [kind |-> kind, adapter |-> adapter, gdf |-> g, sel |-> sel]

\* with zipfile.ZipFile(file) ...; shp_files = list(Path(tmpdir).glob("*.shp"));
\* if shp_files: gdf = gpd.read_file(str(shp_files[0]))
ReadShapefile(i, c) ==
    IF c.bad THEN Result("raise", "shp", None, "")
    ELSE IF c.enum = <<>> THEN Result("skip", "shp", None, "")
    ELSE Result("gdf", "shp", MakeGdf(i, c.enum[1], c.crs), c.enum[1])

\* gpd.read_file(file, driver="KML"): KML coordinates are WGS84
ReadKML(i, c) ==
    IF c.bad THEN Result("raise", "kml", None, "")
    ELSE Result("gdf", "kml", MakeGdf(i, c.ds, WGS84), "")

\* gpd.read_file(file, driver="GeoJSON")
ReadGeoJSON(i, c) ==
    IF c.bad THEN Result("raise", "geojson", None, "")
    ELSE Result("gdf", "geojson", MakeGdf(i, c.ds, c.crs), "")

\* A mutant of ReadCSV: a table without geometry column is passed over the
\* way an archive without .shp entry is.
ReadCSV_skip(i, c) ==
    IF c.bad THEN Result("raise", "csv", None, "")
    ELSE IF "geometry" \in Range(Datasets[c.ds].cols)
         THEN Result("gdf", "csv", MakeGdf(i, c.ds, Unknown), "")
         ELSE Result("skip", "csv", None, "")

\* df = pd.read_csv(file); if "geometry" in df.columns:
\* gpd.GeoDataFrame(df, geometry="geometry") (no crs given) else st.error
ReadCSV(i, c) ==
    IF c.bad THEN Result("raise", "csv", None, "")
    ELSE IF "geometry" \in Range(Datasets[c.ds].cols)
         THEN Result("gdf", "csv", MakeGdf(i, c.ds, Unknown), "")
         ELSE Result("nogeom", "csv", None, "")

\* The if / elif / elif / else dispatch on the format string
ReadFile(format, i, c) ==
    IF format = "Shapefile" THEN ReadShapefile(i, c)
    ELSE IF format = "KML/KMZ" THEN ReadKML(i, c)
    ELSE IF format = "GeoJSON" THEN ReadGeoJSON(i, c)
    ELSE ReadCSV(i, c)

\* ------------------------------------------------------------- pd.concat
\* Appends to cols the elements of more that cols does not hold yet.
RECURSIVE AppendNew(_, _)
AppendNew(cols, more) ==
    IF more = <<>> THEN cols
    ELSE AppendNew(IF Head(more) \in Range(cols) THEN cols
                   ELSE Append(cols, Head(more)),
                   Tail(more))

\* The columns of the outer join: the union in first-seen order.
RECURSIVE UnionCols(_)
UnionCols(frames) ==
    IF frames = <<>> THEN <<>>
    ELSE AppendNew(frames[1].cols, UnionCols(Tail(frames)))

\* A mutant of Reindex: the row keeps the columns of its own frame only.
Reindex_own(f, cols) == f

\* One row on the joined columns: NaN where its frame had no such column.
Reindex(f, cols) ==
    [f EXCEPT !.attrs = [c \in Range(cols) |->
                           IF c \in DOMAIN f.attrs THEN f.attrs[c] ELSE Null]]

\* A mutant of ConcatRows: the rows of later frames come first.
RECURSIVE ConcatRows_rev(_, _)
ConcatRows_rev(frames, cols) ==
    IF frames = <<>> THEN <<>>
    ELSE ConcatRows_rev(Tail(frames), cols)
         \o [r \in DOMAIN frames[1].rows |-> Reindex(frames[1].rows[r], cols)]

\* The rows of the frames, frame after frame, each frame's rows in order.
RECURSIVE ConcatRows(_, _)
ConcatRows(frames, cols) ==
    IF frames = <<>> THEN <<>>
    ELSE [r \in DOMAIN frames[1].rows |-> Reindex(frames[1].rows[r], cols)]
         \o ConcatRows(Tail(frames), cols)

\* The CRS tag of the concatenation, or "raise". geopandas is not pinned:
\*   lib = "common"  geopandas' _get_common_crs: no known CRS gives unknown,
\*                   one known CRS gives it, several known CRSs raise
\*                   ValueError
\*   lib = "first"   older geopandas: __finalize__ copies the CRS of the
\*                   first frame
ConcatCRS(frames, lib) ==
    LET known == {frames[k].crs : k \in DOMAIN frames} \ {Unknown}
    IN IF lib = "first" THEN frames[1].crs
       ELSE IF known = {} THEN Unknown
       ELSE IF Cardinality(known) = 1 THEN CHOOSE c \in known : TRUE
       ELSE "raise"

\* pd.concat(gdfs, ignore_index=True): raises ValueError ("No objects to
\* concatenate") on an empty list. Returns [raised, gdf].
PdConcat(frames, lib) ==
    IF frames = <<>> THEN [raised |-> TRUE, gdf |-> None]
    ELSE IF ConcatCRS(frames, lib) = "raise" THEN [raised |-> TRUE, gdf |-> None]
    ELSE [raised |-> FALSE,
          gdf |-> [cols |-> UnionCols(frames),
                   crs  |-> ConcatCRS(frames, lib),
                   rows |-> ConcatRows(frames, UnionCols(frames))]]

\* ------------------------------------------------------------ save_output
\* The write adapter the if / elif / elif / else of save_output invokes.
WriteAdapter(format) ==
    IF format = "Shapefile" THEN "shp"
    ELSE IF format = "KML" THEN "kml"
    ELSE IF format = "GeoJSON" THEN "geojson"
    ELSE "csv"

\* What save_output does with a frame: the adapter it invokes and whether
\* the write raised (ok = FALSE: to_file / to_json / to_csv raised) or the
\* download button was offered.
SaveOutput(format, ok) ==
    [writer |-> WriteAdapter(format), raised |-> ~ok, output |-> ok]

\* ------------------------------------------------------------------ state
\* page           the page selected in the sidebar
\* formats        the declared format of every uploaded file, in input order
\* output_format  the selected output format
\* idx            merge_files: the position of the loop over zip(files,
\*                input_formats)
\* gdfs           merge_files: the frames read so far
\* gdf            converter page: the frame read (Unbound until assigned)
\* merged_gdf     merger page: what merge_files returned
\* pc             "convert_read", "convert_save": converter page
\*                "merge_files": inside merge_files
\*                "returned": merge_files returned to main
\*                "done": the request ended
\*                "raised": an exception left main
\* error          "none"
\*                "MissingGeometryColumn": st.error("CSV ... must contain a
\*                  geometry column")
\*                "Exception": st.error of an except Exception handler
\*                "EscapedMergeFiles": an exception left merge_files
\*                "EscapedSaveOutput": an exception left save_output and main
\* reads          one entry per input read, in order (history)
\* writer         the write adapter save_output invoked, "none" before
\* output         a download button was offered
TypeOK ==
    /\ page \in {"Format Converter", "Format Merger"}
    /\ Range(formats) \subseteq InputFormats \cup {OtherTag}
    /\ output_format \in OutputFormats \cup {OtherTag}
    /\ idx \in 1..(Len(formats) + 1)
    /\ Len(gdfs) <= Len(formats)
    /\ pc \in {"convert_read", "convert_save", "merge_files", "returned",
               "done", "raised"}
    /\ error \in {"none", "MissingGeometryColumn", "Exception",
                  "EscapedMergeFiles", "EscapedSaveOutput"}
    /\ Len(reads) <= Len(formats)
    /\ writer \in {"none", "shp", "kml", "geojson", "csv"}
    /\ output \in BOOLEAN

\* The request came through main's widgets (a direct call of merge_files
\* can pass any list and any tag).
FromMain ==
    \/ page = "Format Converter"
    \/ /\ Len(formats) >= MinFileCount
       /\ Range(formats) \subseteq InputFormats
       /\ output_format \in OutputFormats

Init ==
    /\ \/ /\ page = "Format Converter"
          /\ \E f \in InputFormats : formats = <<f>>
          /\ output_format \in OutputFormats
          /\ pc = "convert_read"
       \/ /\ page = "Format Merger"
          /\ \E n \in 0..Min(MaxFileCount, MaxFiles) :
                formats \in [1..n -> InputFormats \cup {OtherTag}]
          /\ output_format \in OutputFormats \cup {OtherTag}
          /\ pc = "merge_files"
    /\ idx = 1
    /\ gdfs = <<>>
    /\ gdf = Unbound
    /\ merged_gdf = Unbound
    /\ error = "none"
    /\ reads = <<>>
    /\ writer = "none"
    /\ output = FALSE

\* The history entry of one read.
ReadEntry(format, c, r) ==
    [format |-> format, content |-> c, adapter |-> r.adapter,
     kind |-> r.kind, sel |-> r.sel]

\* merge_files, one iteration of "for file, format in zip(files,
\* input_formats)": the try block and its except handler.
MergeRead ==
    /\ pc = "merge_files"
    /\ idx <= Len(formats)
    /\ \E c \in Contents(formats[idx]) :
         LET r == ReadFile(formats[idx], idx, c) IN
         /\ reads' = Append(reads, ReadEntry(formats[idx], c, r))
         /\ CASE r.kind = "gdf" ->
                   /\ gdfs' = Append(gdfs, r.gdf)
                   /\ idx' = idx + 1
                   /\ UNCHANGED <<merged_gdf, pc, error>>
              [] r.kind = "skip" ->
                   /\ idx' = idx + 1
                   /\ UNCHANGED <<gdfs, merged_gdf, pc, error>>
              [] r.kind = "nogeom" ->
                   /\ error' = "MissingGeometryColumn"
                   /\ merged_gdf' = None
                   /\ pc' = "returned"
                   /\ UNCHANGED <<gdfs, idx>>
              [] r.kind = "raise" ->
                   /\ error' = "Exception"
                   /\ merged_gdf' = None
                   /\ pc' = "returned"
                   /\ UNCHANGED <<gdfs, idx>>
    /\ UNCHANGED <<page, formats, output_format, gdf, writer, output>>

\* merge_files after the loop: merged_gdf = pd.concat(gdfs,
\* ignore_index=True); return merged_gdf. The call is outside every try.
MergeConcat ==
    /\ pc = "merge_files"
    /\ idx > Len(formats)
    /\ \E lib \in {"common", "first"} :
         LET r == PdConcat(gdfs, lib) IN
         IF r.raised
         THEN /\ error' = "EscapedMergeFiles"
              /\ pc' = "raised"
              /\ UNCHANGED merged_gdf
         ELSE /\ merged_gdf' = r.gdf
              /\ pc' = "returned"
              /\ UNCHANGED error
    /\ UNCHANGED <<page, formats, output_format, idx, gdfs, gdf, reads,
                   writer, output>>

\* main, merger page: if merged_gdf is not None: save_output(merged_gdf,
\* output_format, "merged_file"). No try surrounds the call.
MainSaveMerged ==
    /\ pc = "returned"
    /\ IF merged_gdf # None
       THEN \E ok \in BOOLEAN :
              LET s == SaveOutput(output_format, ok) IN
              /\ writer' = s.writer
              /\ output' = s.output
              /\ pc' = IF s.raised THEN "raised" ELSE "done"
              /\ error' = IF s.raised THEN "EscapedSaveOutput" ELSE error
       ELSE /\ pc' = "done"
            /\ UNCHANGED <<writer, output, error>>
    /\ UNCHANGED <<page, formats, output_format, idx, gdfs, gdf, merged_gdf,
                   reads>>

\* main, converter page: the read of the uploaded file inside the try.
ConvertRead ==
    /\ pc = "convert_read"
    /\ \E c \in Contents(formats[1]) :
         LET r == ReadFile(formats[1], 1, c) IN
         /\ reads' = Append(reads, ReadEntry(formats[1], c, r))
         /\ CASE r.kind = "gdf" ->
                   /\ gdf' = r.gdf
                   /\ pc' = "convert_save"
                   /\ UNCHANGED error
              [] r.kind = "skip" ->
                   /\ pc' = "convert_save"
                   /\ UNCHANGED <<gdf, error>>
              [] r.kind = "nogeom" ->
                   /\ error' = "MissingGeometryColumn"
                   /\ pc' = "done"
                   /\ UNCHANGED gdf
              [] r.kind = "raise" ->
                   /\ error' = "Exception"
                   /\ pc' = "done"
                   /\ UNCHANGED gdf
    /\ UNCHANGED <<page, formats, output_format, idx, gdfs, merged_gdf,
                   writer, output>>

\* main, converter page: save_output(gdf, output_format, original_filename)
\* inside the try. Evaluating an unassigned gdf raises UnboundLocalError
\* before save_output is entered; the except handler reports it.
ConvertSave ==
    /\ pc = "convert_save"
    /\ IF gdf = Unbound
       THEN /\ error' = "Exception"
            /\ UNCHANGED <<writer, output>>
       ELSE \E ok \in BOOLEAN :
              LET s == SaveOutput(output_format, ok) IN
              /\ writer' = s.writer
              /\ output' = s.output
              /\ error' = IF s.raised THEN "Exception" ELSE error
    /\ pc' = "done"
    /\ UNCHANGED <<page, formats, output_format, idx, gdfs, gdf, merged_gdf,
                   reads>>

Next ==
    \/ MergeRead
    \/ MergeConcat
    \/ MainSaveMerged
    \/ ConvertRead
    \/ ConvertSave

Spec == Init /\ [][Next]_vars

\* ----------------------------------------------------------------- claims
\* merge_files has finished (returned a value or let an exception out).
MergeFinished == page = "Format Merger" /\ pc # "merge_files"

\* merge_files returned a merged frame.
MergedOK == page = "Format Merger" /\ merged_gdf \notin {Unbound, None}

\* The number of rows of the frames before frame k.
RECURSIVE Offset(_, _)
Offset(frames, k) ==
    IF k <= 1 THEN 0
    ELSE Offset(frames, k - 1) + Len(frames[k - 1].rows)

\* The frame of gdfs a merged row came from.
FrameOf(f) == CHOOSE k \in DOMAIN gdfs : gdfs[k].rows[1].src = f.src

\* Where a column is first seen: <<frame, position in the frame>>.
FirstSeen(c) ==
    LET k == CHOOSE k \in DOMAIN gdfs :
                 /\ c \in Range(gdfs[k].cols)
                 /\ \A j \in 1..(k - 1) : c \notin Range(gdfs[j].cols)
    IN <<k, CHOOSE p \in DOMAIN gdfs[k].cols : gdfs[k].cols[p] = c>>

\* The lexicographically first base name of a set of .shp entries.
LexFirst(S) ==
    ShpNames[CHOOSE i \in DOMAIN ShpNames :
                /\ ShpNames[i] \in S
                /\ \A j \in 1..(i - 1) : ShpNames[j] \notin S]

\* The input read as entry k is a readable table without geometry column
\* that went to the CSV branch.
CsvWithoutGeometry(k) ==
    /\ reads[k].adapter = "csv"
    /\ ~reads[k].content.bad
    /\ "geometry" \notin Range(Datasets[reads[k].content.ds].cols)

\* C1: whenever merge_files returns a merged frame, every input contributed
\* its frame to it; and whenever an input yielded no frame, merge_files
\* returns no merged frame.
C1_NoInputDropped ==
    /\ (FromMain /\ MergedOK) =>
          /\ Len(gdfs) = Len(formats)
          /\ \A k \in DOMAIN reads : reads[k].kind = "gdf"
    /\ (FromMain /\ MergeFinished /\ \E k \in DOMAIN reads : reads[k].kind # "gdf")
          => merged_gdf \in {Unbound, None}

\* C2: the rows of a merged frame are the rows of the frames read, frame
\* after frame in input order, each frame's rows in their order: row r of
\* frame k is at position Offset(k) + r, and there are no other rows.
C2_ConcatInOrder ==
    MergedOK =>
        /\ Len(merged_gdf.rows) = Offset(gdfs, Len(gdfs) + 1)
        /\ \A k \in DOMAIN gdfs : \A r \in DOMAIN gdfs[k].rows :
              /\ merged_gdf.rows[Offset(gdfs, k) + r].src = gdfs[k].rows[r].src
              /\ merged_gdf.rows[Offset(gdfs, k) + r].row = gdfs[k].rows[r].row

C2_Witness ==
    /\ FromMain
    /\ MergedOK
    /\ Len(gdfs) >= 2
    /\ \E k \in DOMAIN gdfs : Len(gdfs[k].rows) >= 2
    /\ pc = "done"

\* C3: every row of a merged frame has exactly the columns of the unified
\* schema, the union of the frames' columns in first-seen order; a column
\* its frame did not have is null, a column it had keeps its value.
C3_SchemaUnion ==
    MergedOK =>
        LET U == UNION {Range(gdfs[k].cols) : k \in DOMAIN gdfs}
            cols == merged_gdf.cols
        IN /\ Range(cols) = U
           /\ Len(cols) = Cardinality(U)
           /\ \A p, q \in DOMAIN cols :
                 p < q =>
                    \/ FirstSeen(cols[p])[1] < FirstSeen(cols[q])[1]
                    \/ /\ FirstSeen(cols[p])[1] = FirstSeen(cols[q])[1]
                       /\ FirstSeen(cols[p])[2] < FirstSeen(cols[q])[2]
           /\ \A p \in DOMAIN merged_gdf.rows :
                 LET f == merged_gdf.rows[p]
                     g == gdfs[FrameOf(f)]
                 IN /\ DOMAIN f.attrs = U
                    /\ \A c \in U :
                          f.attrs[c] = IF c \in Range(g.cols)
                                       THEN g.rows[f.row].attrs[c]
                                       ELSE Null

C3_Witness ==
    /\ FromMain
    /\ MergedOK
    /\ \E p \in DOMAIN merged_gdf.rows :
          /\ \E c \in DOMAIN merged_gdf.rows[p].attrs :
                merged_gdf.rows[p].attrs[c] = Null
          /\ \E c \in DOMAIN merged_gdf.rows[p].attrs :
                merged_gdf.rows[p].attrs[c] # Null

\* C4: save_output is entered only after every input of the request was
\* read into a frame, and a request that reported an error offers no
\* output.
C4_NoPartialSuccess ==
    /\ (FromMain /\ writer # "none") =>
          /\ Len(reads) = Len(formats)
          /\ \A k \in DOMAIN reads : reads[k].kind = "gdf"
    /\ (FromMain /\ error # "none") => ~output

\* C5: a CSV input without geometry column ends the request with the
\* missing-geometry-column error: it is the last input read, save_output is
\* not entered, and merge_files returns None.
C5_MissingGeometryColumn ==
    \A k \in DOMAIN reads :
        CsvWithoutGeometry(k) =>
            /\ k = Len(reads)
            /\ error = "MissingGeometryColumn"
            /\ writer = "none"
            /\ ~output
            /\ page = "Format Merger" =>
                  /\ merged_gdf = None
                  /\ pc \in {"returned", "done"}
                  /\ idx = k
            /\ page = "Format Converter" => pc = "done"

C5_Witness ==
    /\ FromMain
    /\ page = "Format Merger"
    /\ pc = "done"
    /\ Len(gdfs) >= 1
    /\ CsvWithoutGeometry(Len(reads))
    /\ merged_gdf = None

\* C6: a merge in which one frame has an unknown CRS and another a known
\* one returns no merged frame; when every frame's CRS is unknown the
\* merged frame's CRS is unknown.
C6_CRSMismatch ==
    /\ (/\ FromMain
        /\ MergeFinished
        /\ \E j, k \in DOMAIN gdfs :
              gdfs[j].crs = Unknown /\ gdfs[k].crs \in KnownCRS)
          => merged_gdf \in {Unbound, None} /\ error # "EscapedMergeFiles"
    /\ (MergedOK /\ \A k \in DOMAIN gdfs : gdfs[k].crs = Unknown)
          => merged_gdf.crs = Unknown

\* C7: a merge whose inputs all have a known CRS yields a merged frame
\* whose CRS is the CRS of the first input, and the coordinates of every
\* row of it are expressed in that CRS.
C7_SingleCRS ==
    (/\ FromMain
     /\ MergeFinished
     /\ Len(gdfs) = Len(formats)
     /\ \A k \in DOMAIN gdfs : gdfs[k].crs \in KnownCRS)
        => /\ MergedOK
           /\ merged_gdf.crs = gdfs[1].crs
           /\ \A p \in DOMAIN merged_gdf.rows :
                 merged_gdf.rows[p].crs = merged_gdf.crs

\* C8: merge_files always returns the merged frame or None and lets no
\* exception out; stated for the case the claim names, a merge in which no
\* input contributed a frame: the result is None.
C8_AlwaysReturns ==
    (FromMain /\ MergeFinished /\ gdfs = <<>>) =>
        /\ error # "EscapedMergeFiles"
        /\ merged_gdf = None

\* C9: a read of an archive with several .shp entries selects the
\* lexicographically first base name, whatever the enumeration order, and
\* two reads of the same archive select the same entry.
C9_LexFirstShp ==
    /\ \A k \in DOMAIN reads :
          (reads[k].adapter = "shp" /\ reads[k].kind = "gdf") =>
              reads[k].sel = LexFirst(Range(reads[k].content.enum))
    /\ \A j, k \in DOMAIN reads :
          (/\ reads[j].adapter = "shp" /\ reads[j].kind = "gdf"
           /\ reads[k].adapter = "shp" /\ reads[k].kind = "gdf"
           /\ Range(reads[j].content.enum) = Range(reads[k].content.enum))
              => reads[j].sel = reads[k].sel

\* C10: a format tag outside the supported ones invokes no read adapter and
\* no write adapter and is reported as an error.
C10_UnsupportedFormat ==
    /\ \A k \in DOMAIN reads :
          reads[k].format \notin InputFormats =>
              /\ reads[k].adapter \notin {"shp", "kml", "geojson", "csv"}
              /\ error # "none"
    /\ output_format \notin OutputFormats => writer = "none"

====
